---------------------------- MODULE Spec2Model ----------------------------
(***************************************************************************)
(* Model of the wallet key-management and transaction-signing core of     *)
(* canopy-network/swap:                                                    *)
(*   src/lib/crypto/wallet.ts        KeyVault (encrypt / decrypt / verify) *)
(*   src/lib/crypto/utils/order.ts   the three signed-order builders       *)
(*   src/unnamed/part_001            transaction.ts (createAndSign...)     *)
(*   src/unnamed/part_000            EditCloseOrderSummary (UI handlers)   *)
(*   src/lib/crypto.ts               CryptoUtils                           *)
(*                                                                         *)
(* Cryptographic primitives (Argon2, AES-GCM, signatures) are idealised    *)
(* symbolically: the output of a primitive is a term that records its      *)
(* inputs, so two outputs are equal exactly when the inputs are.  All      *)
(* conversions around them (TextEncoder, hex, typed-array views) are       *)
(* computed.                                                               *)
(***************************************************************************)
EXTENDS Integers, Sequences, FiniteSets, TLC

VARIABLES vault, build, comp, pure

vars == <<vault, build, comp, pure>>

(***************************************************************************)
(* Bounds of the model.                                                    *)
(***************************************************************************)
\* Longest ArrayBuffer that backs a private key handed to encryptPrivateKey.
MaxKeyLen == 2
\* Longest password, in UTF-16 code units.
MaxPwLen == 1
\* Readings of Date.now(), in milliseconds.
MaxNow == 2

MaxClicks == 2
\* Length in bytes of a well-formed private key (32 in production; signing
\* rejects every other length).
PrivateKeyLen == 2

(***************************************************************************)
(* Program constants.                                                      *)
(***************************************************************************)
SALT_LENGTH == 16
NONCE_LENGTH == 12
\* AES-GCM is called without tagLength: Web Crypto's default tag is 128 bits.
TAG_LENGTH == 16
\* Public-key sizes in bytes: ED25519 and BLS12381.
ED25519_PUBLIC_KEY_BYTES == 32
BLS12381_PUBLIC_KEY_BYTES == 48
MAX_MEMO_LENGTH == 200

(***************************************************************************)
(* Bytes, strings and results.                                             *)
(*   A byte is [v |-> 0..255], or an opaque byte of a cryptographic        *)
(*   output, [c |-> term, i |-> position].  A hex character is             *)
(*   [d |-> 0..15] (a digit), [d |-> 16] (a character that is no hex       *)
(*   digit), or [of |-> opaque byte, h |-> 1 | 0] (its high / low digit).  *)
(*   A JavaScript string is a sequence of UTF-16 code units.               *)
(***************************************************************************)
Byte(n) == [v |-> n]

Bytes(ns) == [i \in 1..Len(ns) |-> Byte(ns[i])]

Ok(x) == [ok |-> TRUE, name |-> "", value |-> x]

\* A thrown exception, by its Error.name.
Throw(n) == [ok |-> FALSE, name |-> n, value |-> <<>>]

RECURSIVE Flatten(_)
Flatten(ss) == IF ss = <<>> THEN <<>> ELSE Head(ss) \o Flatten(Tail(ss))

\* A Uint8Array is a view [buf, off, len] on an ArrayBuffer; its bytes are
\* buf[off .. off+len-1] and its .buffer is the whole of buf.
ViewBytes(a) == SubSeq(a.buf, a.off + 1, a.off + a.len)

ViewBuffer(a) == a.buf

IsHighSurrogate(u) == u >= 55296 /\ u <= 56319

IsLowSurrogate(u) == u >= 56320 /\ u <= 57343

\* The scalar values of a string (WebIDL USVString conversion, applied by
\* TextEncoder.encode): a surrogate pair is one scalar, an unpaired
\* surrogate becomes U+FFFD.
RECURSIVE ToScalars(_)
ToScalars(s) ==
  IF s = <<>> THEN <<>>
  ELSE IF IsHighSurrogate(s[1]) /\ Len(s) >= 2 /\ IsLowSurrogate(s[2])
       THEN <<65536 + (s[1] - 55296) * 1024 + (s[2] - 56320)>>
              \o ToScalars(SubSeq(s, 3, Len(s)))
  ELSE IF IsHighSurrogate(s[1]) \/ IsLowSurrogate(s[1])
       THEN <<65533>> \o ToScalars(Tail(s))
  ELSE <<s[1]>> \o ToScalars(Tail(s))

Utf8(cp) ==
  IF cp < 128 THEN <<cp>>
  ELSE IF cp < 2048 THEN <<192 + (cp \div 64), 128 + (cp % 64)>>
  ELSE IF cp < 65536
       THEN <<224 + (cp \div 4096), 128 + ((cp \div 64) % 64), 128 + (cp % 64)>>
  ELSE <<240 + (cp \div 262144), 128 + ((cp \div 4096) % 64),
         128 + ((cp \div 64) % 64), 128 + (cp % 64)>>

\* new TextEncoder().encode(password)
TextEncoderEncode(s) ==
  LET sc == ToScalars(s) IN Bytes(Flatten([i \in 1..Len(sc) |-> Utf8(sc[i])]))

IsPlainByte(b) == DOMAIN b = {"v"}

IsDigitChar(ch) == DOMAIN ch = {"d"}

HexPair(b) ==
  IF IsPlainByte(b) THEN <<[d |-> (b.v \div 16)], [d |-> (b.v % 16)]>>
  ELSE <<[of |-> b, h |-> 1], [of |-> b, h |-> 0]>>

\* bytesToHex of @noble/hashes: two lowercase digits per byte.
bytesToHex(bs) == Flatten([i \in 1..Len(bs) |-> HexPair(bs[i])])

IsHexChar(ch) == IF IsDigitChar(ch) THEN ch.d < 16 ELSE TRUE

HexByte(c1, c2) ==
  IF IsDigitChar(c1) /\ IsDigitChar(c2) THEN Byte((16 * c1.d) + c2.d)
  ELSE IF ~IsDigitChar(c1) /\ ~IsDigitChar(c2) /\ c1.of = c2.of
          /\ c1.h = 1 /\ c2.h = 0
       THEN c1.of
  ELSE [g |-> <<c1, c2>>]

\* hexToBytes of @noble/hashes: throws a plain Error on a string of odd
\* length or with a character that is no hex digit.
hexToBytes(hex) ==
  IF Len(hex) % 2 # 0 \/ \E i \in 1..Len(hex) : ~IsHexChar(hex[i])
  THEN Throw("Error")
  ELSE Ok([i \in 1..(Len(hex) \div 2) |-> HexByte(hex[2 * i - 1], hex[2 * i])])

(***************************************************************************)
(* KeyVault: src/lib/crypto/wallet.ts                                      *)
(***************************************************************************)
InvalidPassword == "There's a problem with your password. Please try again."

FailedToDecrypt == "Failed to decrypt private key"

\* argon2i(passwordBytes, salt, {t: 3, m: 32 * 1024, p: 4, dkLen: 32}),
\* idealised: the 32-byte key is determined by, and determines, its inputs.
deriveKey(password, salt) ==
  [kdf |-> "argon2i", pw |-> TextEncoderEncode(password), salt |-> salt]

\* derivedKey.slice(0, NONCE_LENGTH)
NonceOf(derivedKey) == [first |-> NONCE_LENGTH, of |-> derivedKey]

\* crypto.subtle.encrypt({name: "AES-GCM", iv}, key, data), idealised: the
\* ciphertext is Len(data) body bytes followed by the TAG_LENGTH tag bytes.
AesGcmEncrypt(key, iv, data) ==
  LET t == [key |-> key, iv |-> iv, pt |-> data]
  IN  [i \in 1..(Len(data) + TAG_LENGTH) |-> [c |-> t, i |-> i]]

\* crypto.subtle.decrypt: OperationError when the data is shorter than the
\* tag or the tag does not authenticate it under (key, iv).
AesGcmDecrypt(key, iv, data) ==
  IF Len(data) < TAG_LENGTH THEN Throw("OperationError")
  ELSE LET b == data[1]
       IN  IF /\ DOMAIN b = {"c", "i"}
              /\ b.c.key = key
              /\ b.c.iv = iv
              /\ data = AesGcmEncrypt(key, iv, b.c.pt)
           THEN Ok(b.c.pt)
           ELSE Throw("OperationError")

encryptPrivateKey(publicKeyBytes, privateKeyBytes, password, address, salt) ==
  LET derivedKey    == deriveKey(password, salt)
      nonce         == NonceOf(derivedKey)
      encryptedData == AesGcmEncrypt(derivedKey, nonce,
                                     ViewBuffer(privateKeyBytes))
  IN  [publicKey   |-> bytesToHex(ViewBytes(publicKeyBytes)),
       encrypted   |-> bytesToHex(encryptedData),
       salt        |-> bytesToHex(salt),
       keyAddress  |-> address,
       keyNickname |-> ""]

Returned(x) == [ok |-> TRUE, value |-> x, error |-> ""]

Thrown(msg) == [ok |-> FALSE, value |-> <<>>, error |-> msg]

\* DecryptCatch without its OperationError branch.
DecryptCatchGeneric(name) == Thrown(FailedToDecrypt)

\* The catch block of decryptPrivateKey.
DecryptCatch(name) ==
  IF name = "OperationError" THEN Thrown(InvalidPassword)
  ELSE Thrown(FailedToDecrypt)

decryptPrivateKey(encryptedKeyPair, password) ==
  LET salt == hexToBytes(encryptedKeyPair.salt)
      encryptedData == hexToBytes(encryptedKeyPair.encrypted)
  IN  IF ~salt.ok THEN DecryptCatch(salt.name)
      ELSE IF ~encryptedData.ok THEN DecryptCatch(encryptedData.name)
      ELSE LET derivedKey == deriveKey(password, salt.value)
               nonce      == NonceOf(derivedKey)
               decryptedData ==
                 AesGcmDecrypt(derivedKey, nonce, encryptedData.value)
           IN  IF decryptedData.ok THEN Returned(decryptedData.value)
               ELSE DecryptCatch(decryptedData.name)

\* VerifyCatch that gives false for the password error only.
VerifyCatchRethrow(thrown) ==
  IF thrown.error = InvalidPassword THEN Returned(FALSE) ELSE thrown

\* The catch block of verifyPassword: every exception gives false.
VerifyCatch(thrown) == Returned(FALSE)

verifyPassword(encrypted, password) ==
  LET r == decryptPrivateKey(encrypted, password)
  IN  IF r.ok THEN Returned(TRUE) ELSE VerifyCatch(r)

(***************************************************************************)
(* Inputs of the vault operations.                                         *)
(***************************************************************************)
\* Contents of private-key buffers: byte i of the buffer is 17 * i.
KeyBuffers == {Bytes([i \in 1..n |-> 17 * i]) : n \in 0..MaxKeyLen}

\* Every Uint8Array over such a buffer, subarrays included.
KeyViews ==
  {[buf |-> b, off |-> o, len |-> l] :
     b \in KeyBuffers, o \in 0..MaxKeyLen, l \in 0..MaxKeyLen}

PrivateKeyInputs == {a \in KeyViews : a.off + a.len <= Len(a.buf)}

\* "a", a high surrogate and a low surrogate.
PwUnits == {97, 55357, 56832}

Passwords == UNION {[1..n -> PwUnits] : n \in 0..MaxPwLen}

WholeArray(ns) == [buf |-> Bytes(ns), off |-> 0, len |-> Len(ns)]

PublicKeyInputs == {WholeArray(<<171>>), WholeArray(<<1, 35>>)}

Addresses == {"addr1"}

\* crypto.getRandomValues(salt)
SaltA == Bytes([i \in 1..SALT_LENGTH |-> 160 + i])

SaltB == Bytes([i \in 1..SALT_LENGTH |-> 176 + i])

NotHex == [d |-> 16]

\* What the external keyfile store may hand back instead of the record that
\* encryptPrivateKey produced.
Tampers == {"encOdd", "encBadChar", "encTruncated", "encFlipped",
            "saltBadChar", "saltOther"}

Tamper(kf, t) ==
  CASE t = "encOdd" ->
         [kf EXCEPT !.encrypted = SubSeq(@, 1, Len(@) - 1)]
    [] t = "encBadChar" ->
         [kf EXCEPT !.encrypted = <<NotHex>> \o Tail(@)]
    [] t = "encTruncated" ->
         [kf EXCEPT !.encrypted = SubSeq(@, 1, 2 * (TAG_LENGTH - 1))]
    [] t = "encFlipped" ->
         [kf EXCEPT !.encrypted = <<[d |-> 0], [d |-> 0]>> \o SubSeq(@, 3, Len(@))]
    [] t = "saltBadChar" ->
         [kf EXCEPT !.salt = <<NotHex>> \o Tail(@)]
    [] t = "saltOther" ->
         [kf EXCEPT !.salt = bytesToHex(SaltB)]

None == [none |-> TRUE]

(***************************************************************************)
(* Collaborators whose code is not part of the sources: ./types,           *)
(* ./protobuf and ./signing.  They are modelled from the specification.    *)
(***************************************************************************)
ED25519 == "ED25519"

BLS12381 == "BLS12381"

PublicKeyLength(curve) ==
  IF curve = BLS12381 THEN BLS12381_PUBLIC_KEY_BYTES
  ELSE ED25519_PUBLIC_KEY_BYTES

\* The public key of private key sk on a curve, idealised.
PublicKeyBytes(curve, sk) ==
  [i \in 1..PublicKeyLength(curve) |-> [c |-> [pub |-> curve, sk |-> sk], i |-> i]]

\* One field of the wire format; a field holding its default is omitted.
ProtoField(n, value, default) ==
  IF value = default THEN <<>> ELSE <<[field |-> n, value |-> value]>>

\* The nested message of a transaction, by message type.
EncodeMessage(type, msg) ==
  CASE type = "send" ->
         Ok(ProtoField(1, msg.fromAddress, "") \o ProtoField(2, msg.toAddress, "")
            \o ProtoField(3, msg.amount, 0))
    [] type = "createOrder" ->
         Ok(ProtoField(1, msg.chainId, 0) \o ProtoField(2, msg.data, "")
            \o ProtoField(3, msg.amountForSale, 0)
            \o ProtoField(4, msg.requestedAmount, 0)
            \o ProtoField(5, msg.sellerReceiveAddress, "")
            \o ProtoField(6, msg.sellersSendAddress, "")
            \o ProtoField(7, msg.orderId, ""))
    [] type = "editOrder" ->
         Ok(ProtoField(1, msg.orderId, "") \o ProtoField(2, msg.chainId, 0)
            \o ProtoField(3, msg.data, "")
            \o ProtoField(4, msg.amountForSale, 0)
            \o ProtoField(5, msg.requestedAmount, 0)
            \o ProtoField(6, msg.sellerReceiveAddress, ""))
    [] type = "deleteOrder" ->
         Ok(ProtoField(1, msg.orderId, "") \o ProtoField(2, msg.chainId, 0))
    [] OTHER -> Throw("EncodingMismatch")

\* getSignBytesProtobuf: the canonical bytes of a transaction without its
\* signature (field 3 of the wire format).
getSignBytesProtobuf(tx) ==
  LET m == EncodeMessage(tx.type, tx.msg)
  IN  IF ~m.ok THEN m
      ELSE Ok(ProtoField(1, tx.type, "")
              \o <<[field |-> 2, value |-> m.value]>>
              \o ProtoField(4, tx.createdHeight, 0)
              \o ProtoField(5, tx.time, 0)
              \o ProtoField(6, tx.fee, 0)
              \o ProtoField(7, tx.memo, <<>>)
              \o ProtoField(8, tx.networkID, 0)
              \o ProtoField(9, tx.chainID, 0))

\* signMessage: SigningFailure on malformed key material, else the signature
\* of signBytes by the private key on the curve, idealised.
signMessage(signBytes, privateKeyHex, curveType) ==
  LET sk == hexToBytes(privateKeyHex)
  IN  IF ~sk.ok \/ Len(privateKeyHex) # 2 * PrivateKeyLen
      THEN Throw("SigningFailure")
      ELSE Ok([alg |-> curveType, sk |-> sk.value, msg |-> signBytes])

\* The verification the ledger applies: the curve is the one the length of
\* the public key implies.
verifySignature(publicKeyHex, signBytes, signatureHex) ==
  LET curve == IF Len(publicKeyHex) = 2 * BLS12381_PUBLIC_KEY_BYTES
               THEN BLS12381 ELSE ED25519
      pk    == hexToBytes(publicKeyHex)
  IN  /\ pk.ok
      /\ signatureHex.alg = curve
      /\ signatureHex.msg = signBytes
      /\ pk.value = PublicKeyBytes(curve, signatureHex.sk)

(***************************************************************************)
(* Transactions: src/unnamed/part_001                                      *)
(***************************************************************************)
createOrderMessage(chainId, data, amountForSale, requestedAmount, sellerReceiveAddress, sellersSendAddress) ==
  [chainId |-> chainId, data |-> data, amountForSale |-> amountForSale,
   requestedAmount |-> requestedAmount,
   sellerReceiveAddress |-> sellerReceiveAddress,
   sellersSendAddress |-> sellersSendAddress, orderId |-> ""]

createEditOrderMessage(orderId, chainId, data, amountForSale, requestedAmount, sellerReceiveAddress) ==
  [orderId |-> orderId, chainId |-> chainId, data |-> data,
   amountForSale |-> amountForSale, requestedAmount |-> requestedAmount,
   sellerReceiveAddress |-> sellerReceiveAddress]

createDeleteOrderMessage(orderId, chainId) ==
  [orderId |-> orderId, chainId |-> chainId]

\* An unsignedTx whose chainID is filled from the networkID.
UnsignedTxChainFromNetwork(params, now) ==
  [type |-> params.type, msg |-> params.msg, time |-> now * 1000,
   createdHeight |-> params.height, fee |-> params.fee, memo |-> params.memo,
   networkID |-> params.networkID, chainID |-> params.networkID]

\* const unsignedTx = {...}; now is the reading of Date.now().
UnsignedTx(params, now) ==
  [type |-> params.type, msg |-> params.msg, time |-> now * 1000,
   createdHeight |-> params.height, fee |-> params.fee, memo |-> params.memo,
   networkID |-> params.networkID, chainID |-> params.chainID]

\* A signature structure that carries the private key where the public key
\* belongs.
TransactionSignatureSwapped(publicKeyHex, privateKeyHex, signatureHex) ==
  [publicKey |-> privateKeyHex, signature |-> signatureHex]

\* const signature = {publicKey: publicKeyHex, signature: signatureHex}
TransactionSignature(publicKeyHex, privateKeyHex, signatureHex) ==
  [publicKey |-> publicKeyHex, signature |-> signatureHex]

\* return {raw_transaction: {...unsignedTx, signature}}
SignedTx(unsignedTx, signature) ==
  [raw_transaction |->
     [type |-> unsignedTx.type, msg |-> unsignedTx.msg,
      time |-> unsignedTx.time, createdHeight |-> unsignedTx.createdHeight,
      fee |-> unsignedTx.fee, memo |-> unsignedTx.memo,
      networkID |-> unsignedTx.networkID, chainID |-> unsignedTx.chainID,
      signature |-> signature]]

\* validateTransactionParams with the checks of networkID and chainID in
\* the other order.
validateChainBeforeNetwork(params) ==
  IF params.type = "" THEN "Invalid message type: must be a non-empty string"
  ELSE IF params.msg = None THEN "Invalid message: must be an object"
  ELSE IF params.fee < 0 THEN "Invalid fee: must be a non-negative number"
  ELSE IF params.chainID <= 0 THEN "Invalid chain ID: must be a positive number"
  ELSE IF params.networkID <= 0
       THEN "Invalid network ID: must be a positive number"
  ELSE IF params.height < 0 THEN "Invalid height: must be a non-negative number"
  ELSE IF params.memo # <<>> /\ Len(params.memo) > MAX_MEMO_LENGTH
       THEN "Invalid memo: must be 200 characters or less"
  ELSE ""

\* validateTransactionParams: "" when it returns, else the message of the
\* Error it throws.  msg is None for a null or absent payload.
validateTransactionParams(params) ==
  IF params.type = "" THEN "Invalid message type: must be a non-empty string"
  ELSE IF params.msg = None THEN "Invalid message: must be an object"
  ELSE IF params.fee < 0 THEN "Invalid fee: must be a non-negative number"
  ELSE IF params.networkID <= 0
       THEN "Invalid network ID: must be a positive number"
  ELSE IF params.chainID <= 0 THEN "Invalid chain ID: must be a positive number"
  ELSE IF params.height < 0 THEN "Invalid height: must be a non-negative number"
  ELSE IF params.memo # <<>> /\ Len(params.memo) > MAX_MEMO_LENGTH
       THEN "Invalid memo: must be 200 characters or less"
  ELSE ""

(***************************************************************************)
(* CryptoUtils: src/lib/crypto.ts                                          *)
(***************************************************************************)
\* clearSensitiveData assigns the zero string to its own loop variable: the
\* strings of the caller are what they were.
clearSensitiveData(data) == data

(***************************************************************************)
(* The builders: src/lib/crypto/utils/order.ts                             *)
(***************************************************************************)
\* b.toString(16).padStart(2, "0")
ByteToHex(b) ==
  LET digits == IF b.v < 16 THEN <<[d |-> b.v]>>
                ELSE <<[d |-> (b.v \div 16)], [d |-> (b.v % 16)]>>
  IN  IF Len(digits) < 2 THEN <<[d |-> 0]>> \o digits ELSE digits

\* Array.from(privateKeyBytes).map(...).join("")
PrivateKeyHex(privateKeyBytes) ==
  Flatten([i \in 1..Len(privateKeyBytes) |-> ByteToHex(privateKeyBytes[i])])

\* publicKey.length / 2 === 48, in floating point: an odd length never
\* gives 48.
IsBlsLength(publicKey) == Len(publicKey) = 2 * BLS12381_PUBLIC_KEY_BYTES

\* Curve detection with the branches of the conditional exchanged.
CurveTypeInverted(publicKey) ==
  IF IsBlsLength(publicKey) THEN ED25519 ELSE BLS12381

\* Curve detection that knows the two lengths and no other.
CurveTypeByExactLength(publicKey) ==
  IF IsBlsLength(publicKey) THEN BLS12381
  ELSE IF Len(publicKey) = 2 * ED25519_PUBLIC_KEY_BYTES THEN ED25519
  ELSE "UnsupportedKeyLength"

\* createSignedOrder
CurveTypeCreate(publicKey) ==
  IF IsBlsLength(publicKey) THEN BLS12381 ELSE ED25519

\* createSignedEditOrder
CurveTypeEdit(publicKey) ==
  IF IsBlsLength(publicKey) THEN BLS12381 ELSE ED25519

\* createSignedDeleteOrder
CurveTypeDelete(publicKey) ==
  IF IsBlsLength(publicKey) THEN BLS12381 ELSE ED25519

CurveTypeOf(builder, publicKey) ==
  CASE builder = "createOrder" -> CurveTypeCreate(publicKey)
    [] builder = "editOrder"   -> CurveTypeEdit(publicKey)
    [] builder = "deleteOrder" -> CurveTypeDelete(publicKey)

MessageOf(builder, o) ==
  CASE builder = "createOrder" ->
         createOrderMessage(o.chainId, o.data, o.amountForSale,
                            o.requestedAmount, o.sellerReceiveAddress,
                            o.sellersSendAddress)
    [] builder = "editOrder" ->
         createEditOrderMessage(o.orderId, o.chainId, o.data, o.amountForSale,
                                o.requestedAmount, o.sellerReceiveAddress)
    [] builder = "deleteOrder" ->
         createDeleteOrderMessage(o.orderId, o.chainId)

\* const txParams = {type, msg, fee, memo: "", networkID, chainID, height}
TxParams(builder, msg, networkParams) ==
  [type |-> builder, msg |-> msg, fee |-> networkParams.fee, memo |-> <<>>,
   networkID |-> networkParams.networkID, chainID |-> networkParams.chainID,
   height |-> networkParams.currentHeight]

\* A builder that starts over at the step that threw.
RetryStep(step) == step

\* No builder catches: an exception of any step ends the call.
AfterThrow(step) == "failed"

Slots == {"direct", "ui"}

IdleBuild ==
  [pc |-> "idle", builder |-> "", storedKey |-> None, password |-> <<>>,
   orderParams |-> None, networkParams |-> None, privateKeyBytes |-> <<>>,
   privateKeyHex |-> <<>>, curveType |-> "", msg |-> None, txParams |-> None,
   unsignedTx |-> None, signBytes |-> <<>>, signatureHex |-> None,
   result |-> None, error |-> "", trace |-> <<>>]

\* The call of a builder: it runs to its first await, of decryptPrivateKey.
BuildCall(c, builder, storedKey, password, orderParams, networkParams) ==
  build' = [build EXCEPT ![c] =
              [IdleBuild EXCEPT
                 !.pc = "decrypt", !.builder = builder,
                 !.storedKey = storedKey, !.password = password,
                 !.orderParams = orderParams,
                 !.networkParams = networkParams]]

Step(c, name) == Append(build[c].trace, name)

OtherSlot(c) == CHOOSE d \in Slots : d # c

\* A decrypt that keeps the password in a variable of the module, where a
\* call started meanwhile overwrites it.
BuildDecryptShared(c) ==
  /\ build[c].pc = "decrypt"
  /\ LET password == IF build[OtherSlot(c)].pc = "idle" THEN build[c].password
                     ELSE build[OtherSlot(c)].password
         r == decryptPrivateKey(build[c].storedKey.encryptedKeyfile, password)
     IN  build' = [build EXCEPT ![c] =
           IF r.ok
           THEN [@ EXCEPT !.pc = "hex", !.privateKeyBytes = r.value,
                          !.trace = Step(c, "decrypt")]
           ELSE [@ EXCEPT !.pc = AfterThrow("decrypt"), !.error = r.error,
                          !.trace = Step(c, "decrypt")]]

\* await decryptPrivateKey(storedKey.encryptedKeyfile, password)
BuildDecrypt(c) ==
  /\ build[c].pc = "decrypt"
  /\ LET r == decryptPrivateKey(build[c].storedKey.encryptedKeyfile,
                                build[c].password)
     IN  build' = [build EXCEPT ![c] =
           IF r.ok
           THEN [@ EXCEPT !.pc = "hex", !.privateKeyBytes = r.value,
                          !.trace = Step(c, "decrypt")]
           ELSE [@ EXCEPT !.pc = AfterThrow("decrypt"), !.error = r.error,
                          !.trace = Step(c, "decrypt")]]

BuildHex(c) ==
  /\ build[c].pc = "hex"
  /\ build' = [build EXCEPT ![c] =
       [@ EXCEPT !.pc = "detect",
                 !.privateKeyHex = PrivateKeyHex(build[c].privateKeyBytes)]]

BuildDetect(c) ==
  /\ build[c].pc = "detect"
  /\ build' = [build EXCEPT ![c] =
       [@ EXCEPT !.pc = "assemble",
                 !.curveType =
                    CurveTypeOf(build[c].builder,
                                build[c].storedKey.encryptedKeyfile.publicKey),
                 !.trace = Step(c, "detect")]]

\* The message, txParams and, in createAndSignTransaction, unsignedTx.
BuildAssemble(c, now) ==
  /\ build[c].pc = "assemble"
  /\ LET msg      == MessageOf(build[c].builder, build[c].orderParams)
         txParams == TxParams(build[c].builder, msg, build[c].networkParams)
     IN  build' = [build EXCEPT ![c] =
           [@ EXCEPT !.pc = "canonicalize", !.msg = msg,
                     !.txParams = txParams,
                     !.unsignedTx = UnsignedTx(txParams, now),
                     !.trace = Step(c, "assemble")]]

BuildCanonicalize(c) ==
  /\ build[c].pc = "canonicalize"
  /\ LET r == getSignBytesProtobuf(build[c].unsignedTx)
     IN  build' = [build EXCEPT ![c] =
           IF r.ok
           THEN [@ EXCEPT !.pc = "sign", !.signBytes = r.value,
                          !.trace = Step(c, "canonicalize")]
           ELSE [@ EXCEPT !.pc = AfterThrow("canonicalize"), !.error = r.name,
                          !.trace = Step(c, "canonicalize")]]

BuildSign(c) ==
  /\ build[c].pc = "sign"
  /\ LET r == signMessage(build[c].signBytes, build[c].privateKeyHex,
                          build[c].curveType)
     IN  build' = [build EXCEPT ![c] =
           IF r.ok
           THEN [@ EXCEPT !.pc = "package", !.signatureHex = r.value,
                          !.trace = Step(c, "sign")]
           ELSE [@ EXCEPT !.pc = AfterThrow("sign"), !.error = r.name,
                          !.trace = Step(c, "sign")]]

BuildPackage(c) ==
  /\ build[c].pc = "package"
  /\ build' = [build EXCEPT ![c] =
       [@ EXCEPT !.pc = "done",
                 !.result =
                    SignedTx(build[c].unsignedTx,
                             TransactionSignature(
                               build[c].storedKey.encryptedKeyfile.publicKey,
                               build[c].privateKeyHex,
                               build[c].signatureHex)),
                 !.trace = Step(c, "package")]]


(***************************************************************************)
(* Inputs of the builders.                                                 *)
(***************************************************************************)
WholeView(bs) == [buf |-> bs, off |-> 0, len |-> Len(bs)]

\* A wallet as wallet generation stores it: the private key encrypted, with
\* the public key of that private key on the wallet's curve.
Wallet(curve, sk, password, filename) ==
  [filename |-> filename,
   encryptedKeyfile |->
     encryptPrivateKey(WholeView(PublicKeyBytes(curve, sk)), WholeView(sk),
                       password, "addr1", SaltA)]

GoodKey == Bytes([i \in 1..PrivateKeyLen |-> 16 * i - 9])

\* Key material of the wrong length.
ShortKey == Bytes([i \in 1..(PrivateKeyLen - 1) |-> 16 * i - 9])

WalletPassword == <<97>>

EdWallet == Wallet(ED25519, GoodKey, WalletPassword, "ed.json")

BlsWallet == Wallet(BLS12381, GoodKey, WalletPassword, "bls.json")

MalformedWallet ==
  [filename |-> "short.json",
   encryptedKeyfile |->
     encryptPrivateKey(WholeView(PublicKeyBytes(ED25519, GoodKey)),
                       WholeView(ShortKey), WalletPassword, "addr1", SaltA)]

CorruptedWallet ==
  [EdWallet EXCEPT !.encryptedKeyfile = Tamper(@, "encOdd")]

StoredKeys == {EdWallet, BlsWallet, MalformedWallet, CorruptedWallet}

BuildPasswords == {WalletPassword, <<98>>}

Builders == {"createOrder", "editOrder", "deleteOrder"}

OrderParams(builder) ==
  CASE builder = "createOrder" ->
         {[chainId |-> 1, data |-> "", amountForSale |-> 100,
           requestedAmount |-> 50, sellerReceiveAddress |-> "aa",
           sellersSendAddress |-> "bb"]}
    [] builder = "editOrder" ->
         {[orderId |-> "0f", chainId |-> 1, data |-> "", amountForSale |-> a,
           requestedAmount |-> 50, sellerReceiveAddress |-> "aa"] :
            a \in {0, 100}}
    [] builder = "deleteOrder" ->
         {[orderId |-> "0f", chainId |-> 1]}

NetworkParams ==
  [networkID : {0, 1}, chainID : {0, 1}, currentHeight : {-1, 0, 500},
   fee : {-1, 0, 10000}]

(***************************************************************************)
(* The build specification: a caller calls one of the builders.            *)
(***************************************************************************)
BuildInit ==
  build = [c \in Slots |-> IdleBuild]

DirectCall ==
  /\ build["direct"].pc = "idle"
  /\ \E b \in Builders, k \in StoredKeys, p \in BuildPasswords,
        n \in NetworkParams :
       \E o \in OrderParams(b) : BuildCall("direct", b, k, p, o, n)

(***************************************************************************)
(* The order component (EditCloseOrderSummary).  What it reads from its    *)
(* props and contexts is its environment; a click runs a handler up to its *)
(* first await, and every later step resumes the handler after an await.   *)
(***************************************************************************)
NoWallet == [filename |-> "", encryptedKeyfile |-> None]

SelectedWallets == {NoWallet, EdWallet, BlsWallet, CorruptedWallet}

\* getKeyfilePassword: the empty string when the session holds none.
SessionPasswords == {<<>>, WalletPassword, <<98>>}

\* height?.height || 0
Heights == {0}

\* tradingPair.committee
Committees == {1}

MinimumFees == {10000}

Environments ==
  [selectedCanopyWallet : SelectedWallets, hasOrder : BOOLEAN,
   password : SessionPasswords, height : Heights, committee : Committees,
   fee : MinimumFees]

IdleHandler == [pc |-> "idle", kind |-> "", inv |-> 0]

Mounted(env) ==
  [env |-> env, isLoading |-> FALSE, handler |-> IdleHandler, clicks |-> 0,
   submitted |-> <<>>, toast |-> "", closed |-> 0]

NoComponent ==
  Mounted([selectedCanopyWallet |-> NoWallet, hasOrder |-> FALSE,
           password |-> <<>>, height |-> 0, committee |-> 1, fee |-> 10000])

submitSignedTransaction(inv, signedTx, networkId) ==
  [inv |-> inv, tx |-> signedTx, networkId |-> networkId]

HandlerNetworkParams(env) ==
  [networkID |-> env.committee, chainID |-> 1, currentHeight |-> env.height,
   fee |-> env.fee]

\* The handler from its entry to its first await.
HandlerStart(kind, builder, orderParams) ==
  IF comp.env.selectedCanopyWallet.filename = "" \/ ~comp.env.hasOrder
    THEN /\ comp' = [comp EXCEPT !.clicks = @ + 1,
                       !.toast = "No Canopy wallet or order selected"]
         /\ UNCHANGED build
  ELSE IF comp.env.password = <<>>
    THEN /\ comp' = [comp EXCEPT !.clicks = @ + 1,
                       !.toast = "Keyfile password not found"]
         /\ UNCHANGED build
  ELSE /\ comp' = [comp EXCEPT !.clicks = @ + 1, !.isLoading = TRUE,
                     !.handler = [pc |-> "building", kind |-> kind,
                                  inv |-> comp.clicks + 1]]
       /\ BuildCall("ui", builder, comp.env.selectedCanopyWallet,
                    comp.env.password,
                    [orderParams EXCEPT !.chainId = comp.env.committee],
                    HandlerNetworkParams(comp.env))

\* Buttons that stay enabled while a handler runs.
ButtonNeverDisabled == FALSE

\* disabled={isLoading}, of both buttons as last rendered.
ButtonDisabled == comp.isLoading

handleEditAskOrder ==
  /\ ~ButtonDisabled
  /\ comp.clicks < MaxClicks
  /\ \E o \in OrderParams("editOrder") : HandlerStart("edit", "editOrder", o)

handleDeleteAskOrder ==
  /\ ~ButtonDisabled
  /\ comp.clicks < MaxClicks
  /\ \E o \in OrderParams("deleteOrder") :
       HandlerStart("delete", "deleteOrder", o)

FailureToast(kind) ==
  IF kind = "edit" THEN "Failed to edit order" ELSE "Failed to delete order"

ProgressToast(kind) ==
  IF kind = "edit" THEN "Edit order in Progress" ELSE "Cancelation in Progress"

\* What a handler does to the submissions when its catch block runs.
ResendOnFailure(submitted, call) == Append(submitted, call)

AfterSubmitFailure(submitted, call) == submitted

\* The builder returned: the handler submits the signed transaction.
HandlerSubmit ==
  /\ comp.handler.pc = "building"
  /\ build["ui"].pc = "done"
  /\ comp' = [comp EXCEPT
                !.submitted =
                  Append(@, submitSignedTransaction(comp.handler.inv,
                                                    build["ui"].result,
                                                    comp.env.committee)),
                !.handler = [comp.handler EXCEPT !.pc = "submitting"]]
  /\ UNCHANGED build

\* A handler whose catch block is not followed by a finally block.
HandlerBuildFailedNoFinally ==
  /\ comp.handler.pc = "building"
  /\ build["ui"].pc = "failed"
  /\ comp' = [comp EXCEPT !.toast = FailureToast(comp.handler.kind),
                !.handler = IdleHandler]
  /\ UNCHANGED build

\* The builder threw: catch, then finally.
HandlerBuildFailed ==
  /\ comp.handler.pc = "building"
  /\ build["ui"].pc = "failed"
  /\ comp' = [comp EXCEPT !.toast = FailureToast(comp.handler.kind),
                !.isLoading = FALSE, !.handler = IdleHandler]
  /\ UNCHANGED build

\* The submission resolved: toast, onClose, then finally.
HandlerSubmitted ==
  /\ comp.handler.pc = "submitting"
  /\ comp' = [comp EXCEPT !.toast = ProgressToast(comp.handler.kind),
                !.closed = @ + 1,
                !.isLoading = FALSE, !.handler = IdleHandler]
  /\ UNCHANGED build

\* The submission rejected: catch, then finally.
HandlerSubmitFailed ==
  /\ comp.handler.pc = "submitting"
  /\ comp' = [comp EXCEPT
                !.submitted =
                  AfterSubmitFailure(@,
                    submitSignedTransaction(comp.handler.inv,
                                            build["ui"].result,
                                            comp.env.committee)),
                !.toast = FailureToast(comp.handler.kind),
                !.isLoading = FALSE, !.handler = IdleHandler]
  /\ UNCHANGED build

(***************************************************************************)
(* A call of a function that keeps no state: its arguments and, once it    *)
(* has returned, what it gave.                                             *)
(***************************************************************************)
NoCall == [phase |-> "none", args |-> None, result |-> None]

(***************************************************************************)
(* The vault specification: one keyfile is produced, possibly tampered     *)
(* with in the store, and then decrypted or verified.                      *)
(***************************************************************************)
VaultStart ==
  vault = [phase |-> "start", k |-> None, pw |-> <<>>, keyfile |-> None,
           tamper |-> "none", tryPw |-> <<>>, result |-> None]

VaultInit == VaultStart /\ BuildInit /\ comp = NoComponent /\ pure = NoCall

VaultEncrypt ==
  /\ vault.phase = "start"
  /\ \E k \in PrivateKeyInputs, pub \in PublicKeyInputs, p \in Passwords,
        addr \in Addresses :
       vault' = [vault EXCEPT
                   !.phase = "stored", !.k = k, !.pw = p,
                   !.keyfile = encryptPrivateKey(pub, k, p, addr, SaltA)]

VaultTamper ==
  /\ vault.phase = "stored"
  /\ vault.tamper = "none"
  /\ \E t \in Tampers :
       vault' = [vault EXCEPT !.tamper = t, !.keyfile = Tamper(@, t)]

VaultDecrypt ==
  /\ vault.phase = "stored"
  /\ \E p \in Passwords :
       vault' = [vault EXCEPT
                   !.phase = "decrypted", !.tryPw = p,
                   !.result = decryptPrivateKey(vault.keyfile, p)]

VaultVerify ==
  /\ vault.phase = "stored"
  /\ \E p \in Passwords :
       vault' = [vault EXCEPT
                   !.phase = "verified", !.tryPw = p,
                   !.result = verifyPassword(vault.keyfile, p)]

VaultNext ==
  \/ VaultEncrypt /\ UNCHANGED <<build, comp, pure>>
  \/ VaultTamper /\ UNCHANGED <<build, comp, pure>>
  \/ VaultDecrypt /\ UNCHANGED <<build, comp, pure>>
  \/ VaultVerify /\ UNCHANGED <<build, comp, pure>>

SpecVault == VaultInit /\ [][VaultNext]_vars

BuildSpecInit == VaultStart /\ BuildInit /\ comp = NoComponent /\ pure = NoCall

BuildNext ==
  \/ DirectCall /\ UNCHANGED <<vault, comp, pure>>
  \/ BuildDecrypt("direct") /\ UNCHANGED <<vault, comp, pure>>
  \/ BuildHex("direct") /\ UNCHANGED <<vault, comp, pure>>
  \/ BuildDetect("direct") /\ UNCHANGED <<vault, comp, pure>>
  \/ (\E now \in 1..MaxNow : BuildAssemble("direct", now))
       /\ UNCHANGED <<vault, comp, pure>>
  \/ BuildCanonicalize("direct") /\ UNCHANGED <<vault, comp, pure>>
  \/ BuildSign("direct") /\ UNCHANGED <<vault, comp, pure>>
  \/ BuildPackage("direct") /\ UNCHANGED <<vault, comp, pure>>

SpecBuild == BuildSpecInit /\ [][BuildNext]_vars

(***************************************************************************)
(* The component specification: the user clicks the two buttons of one     *)
(* mounted component; the builds of its handlers run in the slot "ui".     *)
(***************************************************************************)
UIInit ==
  /\ VaultStart
  /\ BuildInit
  /\ \E env \in Environments : comp = Mounted(env)
  /\ pure = NoCall

UINext ==
  \/ handleEditAskOrder /\ UNCHANGED <<vault, pure>>
  \/ handleDeleteAskOrder /\ UNCHANGED <<vault, pure>>
  \/ BuildDecrypt("ui") /\ UNCHANGED <<vault, comp, pure>>
  \/ BuildHex("ui") /\ UNCHANGED <<vault, comp, pure>>
  \/ BuildDetect("ui") /\ UNCHANGED <<vault, comp, pure>>
  \/ (\E now \in 1..MaxNow : BuildAssemble("ui", now))
       /\ UNCHANGED <<vault, comp, pure>>
  \/ BuildCanonicalize("ui") /\ UNCHANGED <<vault, comp, pure>>
  \/ BuildSign("ui") /\ UNCHANGED <<vault, comp, pure>>
  \/ BuildPackage("ui") /\ UNCHANGED <<vault, comp, pure>>
  \/ HandlerSubmit /\ UNCHANGED <<vault, pure>>
  \/ HandlerBuildFailed /\ UNCHANGED <<vault, pure>>
  \/ HandlerSubmitted /\ UNCHANGED <<vault, pure>>
  \/ HandlerSubmitFailed /\ UNCHANGED <<vault, pure>>

SpecUI == UIInit /\ [][UINext]_vars

(***************************************************************************)
(* The concurrent specification: two callers call builders and the calls   *)
(* interleave between their statements.                                    *)
(***************************************************************************)
ConcurrentKeys == {EdWallet, MalformedWallet, CorruptedWallet}

ConcurrentNetworkParams ==
  [networkID |-> 1, chainID |-> 1, currentHeight |-> 500, fee |-> 10000]

ConcurrentCall(c) ==
  /\ build[c].pc = "idle"
  /\ \E b \in Builders, k \in ConcurrentKeys, p \in BuildPasswords :
       \E o \in OrderParams(b) :
         BuildCall(c, b, k, p, o, ConcurrentNetworkParams)

ConcurrentInit == VaultStart /\ BuildInit /\ comp = NoComponent /\ pure = NoCall

ConcurrentNext ==
  \/ (\E c \in Slots : ConcurrentCall(c)) /\ UNCHANGED <<vault, comp, pure>>
  \/ (\E c \in Slots : BuildDecrypt(c)) /\ UNCHANGED <<vault, comp, pure>>
  \/ (\E c \in Slots : BuildHex(c)) /\ UNCHANGED <<vault, comp, pure>>
  \/ (\E c \in Slots : BuildDetect(c)) /\ UNCHANGED <<vault, comp, pure>>
  \/ (\E c \in Slots, now \in 1..MaxNow : BuildAssemble(c, now))
       /\ UNCHANGED <<vault, comp, pure>>
  \/ (\E c \in Slots : BuildCanonicalize(c)) /\ UNCHANGED <<vault, comp, pure>>
  \/ (\E c \in Slots : BuildSign(c)) /\ UNCHANGED <<vault, comp, pure>>
  \/ (\E c \in Slots : BuildPackage(c)) /\ UNCHANGED <<vault, comp, pure>>

SpecConcurrent == ConcurrentInit /\ [][ConcurrentNext]_vars

(***************************************************************************)
(* The key-length specification: a caller calls a builder with a keyfile   *)
(* whose publicKey has a length that belongs to neither curve.             *)
(***************************************************************************)
OtherKeyLengths == {0, 62, 66, 95, 97, 128}

\* A keyfile of the wallet with a publicKey of n characters.
OtherLengthWallet(n) ==
  [EdWallet EXCEPT !.encryptedKeyfile.publicKey = [i \in 1..n |-> [d |-> 10]]]

OtherLengthKeys == {OtherLengthWallet(n) : n \in OtherKeyLengths}

KeyLengthCall ==
  /\ build["direct"].pc = "idle"
  /\ \E b \in Builders, k \in OtherLengthKeys, p \in BuildPasswords,
        n \in NetworkParams :
       \E o \in OrderParams(b) : BuildCall("direct", b, k, p, o, n)

KeyLengthInit == VaultStart /\ BuildInit /\ comp = NoComponent /\ pure = NoCall

KeyLengthNext ==
  \/ KeyLengthCall /\ UNCHANGED <<vault, comp, pure>>
  \/ BuildDecrypt("direct") /\ UNCHANGED <<vault, comp, pure>>
  \/ BuildHex("direct") /\ UNCHANGED <<vault, comp, pure>>
  \/ BuildDetect("direct") /\ UNCHANGED <<vault, comp, pure>>
  \/ (\E now \in 1..MaxNow : BuildAssemble("direct", now))
       /\ UNCHANGED <<vault, comp, pure>>
  \/ BuildCanonicalize("direct") /\ UNCHANGED <<vault, comp, pure>>
  \/ BuildSign("direct") /\ UNCHANGED <<vault, comp, pure>>
  \/ BuildPackage("direct") /\ UNCHANGED <<vault, comp, pure>>

SpecKeyLength == KeyLengthInit /\ [][KeyLengthNext]_vars

(***************************************************************************)
(* The validation specification: validateTransactionParams is called on    *)
(* one TransactionParams.                                                  *)
(***************************************************************************)
RecognizedTypes == {"send", "createOrder", "editOrder", "deleteOrder"}

ValidateTypes == {"", "deleteOrder", "stake"}

\* An object that has none of the fields of a message.
ForeignPayload == [note |-> "x"]

ValidateMessages == {None, createDeleteOrderMessage("0f", 1), ForeignPayload}

Memo(n) == [i \in 1..n |-> 97]

ValidateMemos ==
  {Memo(0), Memo(MAX_MEMO_LENGTH), Memo(MAX_MEMO_LENGTH + 1)}

ValidateParams ==
  [type : ValidateTypes, msg : ValidateMessages, fee : {-1, 0},
   memo : ValidateMemos, networkID : {0, 1}, chainID : {0, 1},
   height : {-1, 0}]

ValidateInit ==
  /\ VaultStart
  /\ BuildInit
  /\ comp = NoComponent
  /\ \E params \in ValidateParams :
       pure = [phase |-> "called", args |-> params, result |-> None]

Validate ==
  /\ pure.phase = "called"
  /\ pure' = [pure EXCEPT !.phase = "returned",
                !.result = validateTransactionParams(pure.args)]
  /\ UNCHANGED <<vault, build, comp>>

ValidateNext == Validate

SpecValidate == ValidateInit /\ [][ValidateNext]_vars

(***************************************************************************)
(* The sign-bytes specification: createAndSignTransaction assembles two    *)
(* transactions, alike or different in one place, and takes the sign bytes *)
(* of each.                                                                *)
(***************************************************************************)
\* A message type with a payload of that type.
TypedMessages ==
  {[type |-> "createOrder",
    msg |-> createOrderMessage(1, "", a, 50, "aa", "bb")] : a \in {0, 100}}
  \cup {[type |-> "editOrder",
         msg |-> createEditOrderMessage("0f", 1, "", 0, 0, "")],
        [type |-> "editOrder",
         msg |-> createEditOrderMessage("0f", 1, "", 100, 50, "aa")]}
  \cup {[type |-> "deleteOrder", msg |-> createDeleteOrderMessage(id, 1)] :
          id \in {"0f", "1e"}}

SignArgs ==
  [typed : TypedMessages, fee : {0, 10000}, memo : {<<>>, <<97>>},
   networkID : {1, 2}, chainID : {1, 2}, height : {0, 500},
   now : 1..MaxNow]

SignFields == {"typed", "fee", "memo", "networkID", "chainID", "height", "now"}

\* The places in which two argument records differ.
Differing(a, b) == {f \in SignFields : a[f] # b[f]}

SignParams(a) ==
  [type |-> a.typed.type, msg |-> a.typed.msg, fee |-> a.fee,
   memo |-> a.memo, networkID |-> a.networkID, chainID |-> a.chainID,
   height |-> a.height]

SignBytesInit ==
  /\ VaultStart
  /\ BuildInit
  /\ comp = NoComponent
  /\ \E a \in SignArgs, b \in SignArgs :
       /\ Cardinality(Differing(a, b)) <= 1
       /\ pure = [phase |-> "called", args |-> <<a, b>>, result |-> None]

\* unsignedTx and getSignBytesProtobuf(unsignedTx), for each of the two.
SignBytes ==
  /\ pure.phase = "called"
  /\ pure' = [pure EXCEPT !.phase = "returned",
                !.result =
                   [i \in 1..2 |->
                      getSignBytesProtobuf(
                        UnsignedTx(SignParams(pure.args[i]),
                                   pure.args[i].now))]]
  /\ UNCHANGED <<vault, build, comp>>

SignBytesNext == SignBytes

SpecSignBytes == SignBytesInit /\ [][SignBytesNext]_vars

(***************************************************************************)
(* Claims about the vault (checked under SpecVault).                       *)
(***************************************************************************)
Untampered == vault.tamper = "none"

\* C1 (as stated): decrypting an untampered keyfile with the password it was
\* encrypted with returns exactly the bytes of the private key k.
C1_RoundTrip ==
  (vault.phase = "decrypted" /\ Untampered /\ vault.tryPw = vault.pw)
    => (vault.result.ok /\ vault.result.value = ViewBytes(vault.k))

C3_VerifyPropagatesOtherErrors ==
  vault.phase = "verified" =>
    LET r == decryptPrivateKey(vault.keyfile, vault.tryPw)
    IN  /\ r.ok => vault.result = Returned(TRUE)
        /\ vault.result = Returned(FALSE) => r.error = InvalidPassword
        /\ (~r.ok /\ r.error # InvalidPassword) => ~vault.result.ok

\* C3 (amended): verifyPassword never throws: it returns true when decryption
\* succeeds and false when decryption fails, whatever the kind of failure.
C3_VerifyReturnsFalseOnAnyFailure ==
  vault.phase = "verified" =>
    /\ vault.result.ok
    /\ vault.result.value = decryptPrivateKey(vault.keyfile, vault.tryPw).ok

C3_Witness ==
  /\ vault.phase = "verified"
  /\ vault.result = Returned(FALSE)
  /\ decryptPrivateKey(vault.keyfile, vault.tryPw) = Thrown(FailedToDecrypt)

\* A keyfile field that cannot be what encryptPrivateKey writes: a salt or a
\* ciphertext that is no hex string, or a ciphertext too short to hold the
\* AES-GCM tag.
StructurallyInvalid(kf) ==
  \/ ~hexToBytes(kf.salt).ok
  \/ ~hexToBytes(kf.encrypted).ok
  \/ Len(kf.encrypted) < 2 * TAG_LENGTH

\* C4 (as stated): decryptPrivateKey reports a failed authentication of a
\* well-formed keyfile as InvalidPassword, and a structurally invalid keyfile
\* never as InvalidPassword.
C4_DistinctErrorKinds ==
  (vault.phase = "decrypted" /\ ~vault.result.ok) =>
    IF StructurallyInvalid(vault.keyfile)
    THEN vault.result.error # InvalidPassword
    ELSE vault.result.error = InvalidPassword

(***************************************************************************)
(* Claims about the builders (checked under SpecBuild).                    *)
(***************************************************************************)
StepOrder ==
  <<"decrypt", "detect", "assemble", "canonicalize", "sign", "package">>

IsPrefix(s, t) == Len(s) <= Len(t) /\ s = SubSeq(t, 1, Len(s))

Steps(b) == {b.trace[i] : i \in 1..Len(b.trace)}

PublicKeyOf(b) == b.storedKey.encryptedKeyfile.publicKey

\* C5: in each of the three builders a public key of 64 hex characters is
\* signed with ED25519 and one of 96 hex characters with BLS12381, whatever
\* the other inputs of the call.
C5_CurveSelection ==
  \A c \in Slots :
    build[c].curveType # "" =>
      /\ build[c].builder \in Builders
      /\ Len(PublicKeyOf(build[c])) = 2 * ED25519_PUBLIC_KEY_BYTES
           => build[c].curveType = ED25519
      /\ Len(PublicKeyOf(build[c])) = 2 * BLS12381_PUBLIC_KEY_BYTES
           => build[c].curveType = BLS12381
      /\ build[c].signatureHex # None
           => build[c].signatureHex.alg = build[c].curveType

C5_Witness ==
  \E c \in Slots :
    /\ build[c].builder = "deleteOrder"
    /\ Len(PublicKeyOf(build[c])) = 2 * BLS12381_PUBLIC_KEY_BYTES
    /\ build[c].curveType = BLS12381
    /\ build[c].pc = "done"

\* The parameters of a call violate what validateTransactionParams accepts.
InvalidParameter(b) ==
  validateTransactionParams(
    TxParams(b.builder, MessageOf(b.builder, b.orderParams), b.networkParams))

\* C6 (as stated): a call whose parameters are invalid never reaches
\* canonical encoding or signing and returns no signed transaction; once its
\* key is decrypted it fails with the InvalidParameter error.
C6_InvalidParametersRejected ==
  \A c \in Slots :
    (build[c].pc # "idle" /\ InvalidParameter(build[c]) # "") =>
      /\ "canonicalize" \notin Steps(build[c])
      /\ "sign" \notin Steps(build[c])
      /\ build[c].result = None
      /\ (build[c].pc = "failed" /\ Len(build[c].trace) > 1)
           => build[c].error = InvalidParameter(build[c])

ZeroedBytes(bs) == \A i \in 1..Len(bs) : bs[i] = Byte(0)

\* No character of the string is a non-zero hex digit.
ZeroedString(str) ==
  \A i \in 1..Len(str) : ~(IsDigitChar(str[i]) /\ str[i].d \in 1..15)

\* C7 (as stated): when a build has ended, by return or by exception, the
\* private-key buffer it decrypted and the hex copy made of it hold zeros.
C7_KeyMaterialZeroed ==
  \A c \in Slots :
    build[c].pc \in {"done", "failed"} =>
      /\ ZeroedBytes(build[c].privateKeyBytes)
      /\ ZeroedString(clearSensitiveData(build[c].privateKeyHex))

\* C8: the steps of a build run in order, each at most once and only after
\* the one before it succeeded; a step that fails ends the build with an
\* error and without a signed transaction, and only a build that ran every
\* step returns one.
C8_SinglePass ==
  \A c \in Slots :
    /\ IsPrefix(build[c].trace, StepOrder)
    /\ build[c].error # "" <=> build[c].pc = "failed"
    /\ build[c].result # None <=> build[c].pc = "done"
    /\ build[c].pc = "done" => build[c].trace = StepOrder
    /\ build[c].pc = "failed" => build[c].trace # StepOrder

C8_Witness ==
  \E c \in Slots :
    /\ build[c].pc = "failed"
    /\ build[c].trace = <<"decrypt">>
    /\ build[c].error = InvalidPassword
    /\ build[c].result = None

UnsignedFields(tx) ==
  [type |-> tx.type, msg |-> tx.msg, time |-> tx.time,
   createdHeight |-> tx.createdHeight, fee |-> tx.fee, memo |-> tx.memo,
   networkID |-> tx.networkID, chainID |-> tx.chainID]

ImpliedCurve(publicKey) ==
  IF Len(publicKey) = 2 * BLS12381_PUBLIC_KEY_BYTES THEN BLS12381 ELSE ED25519

SubmissionsOf(inv) ==
  {i \in DOMAIN comp.submitted : comp.submitted[i].inv = inv}

\* A call of submitSignedTransaction is made by the handler whose build has
\* just returned, with the signed transaction that build returned, and is
\* the first call of that handler invocation.
SubmitsBuiltTransaction ==
  comp.submitted' # comp.submitted =>
    /\ comp.handler.pc = "building"
    /\ build["ui"].pc = "done"
    /\ SubmissionsOf(comp.handler.inv) = {}
    /\ comp.submitted' =
         Append(comp.submitted,
                [inv |-> comp.handler.inv, tx |-> build["ui"].result,
                 networkId |-> comp.env.committee])

\* A handler past its build has made exactly one call, a handler still
\* building has made none, and no invocation has made two.
OneSubmissionPerBuild ==
  /\ \A n \in 1..MaxClicks : Cardinality(SubmissionsOf(n)) <= 1
  /\ comp.handler.pc = "building" => SubmissionsOf(comp.handler.inv) = {}
  /\ comp.handler.pc = "submitting"
       => /\ Cardinality(SubmissionsOf(comp.handler.inv)) = 1
          /\ build["ui"].pc = "done"
          /\ comp.submitted[Len(comp.submitted)].tx = build["ui"].result
  /\ Len(comp.submitted) <= comp.clicks

\* C10: the signed transaction a build returns to the edit or delete handler
\* is handed to submitSignedTransaction exactly once and unmodified; nothing
\* is submitted without a successful build, and a submission that failed is
\* not sent again by the handler.
C10_SubmittedExactlyOnce ==
  [](OneSubmissionPerBuild) /\ [][SubmitsBuiltTransaction]_vars

C10_Witness ==
  /\ Len(comp.submitted) = 1
  /\ comp.handler.pc = "idle"
  /\ comp.toast = "Failed to delete order"
  /\ build["ui"].pc = "done"
  /\ comp.submitted[1].tx = build["ui"].result

(***************************************************************************)
(* Claims about concurrent calls (checked under SpecConcurrent).           *)
(***************************************************************************)
\* What a builder gives when its statements run one after the other with
\* nothing in between; now is its reading of Date.now().
BuilderOutcome(builder, storedKey, password, orderParams, networkParams, now) ==
  LET publicKey == storedKey.encryptedKeyfile.publicKey
      key       == decryptPrivateKey(storedKey.encryptedKeyfile, password)
      hex       == PrivateKeyHex(key.value)
      tx        == UnsignedTx(TxParams(builder, MessageOf(builder, orderParams),
                                       networkParams), now)
      bytes     == getSignBytesProtobuf(tx)
      sig       == signMessage(bytes.value, hex,
                               CurveTypeOf(builder, publicKey))
  IN  IF ~key.ok THEN Thrown(key.error)
      ELSE IF ~bytes.ok THEN Thrown(bytes.name)
      ELSE IF ~sig.ok THEN Thrown(sig.name)
      ELSE Returned(SignedTx(tx, TransactionSignature(publicKey, hex,
                                                      sig.value)))

\* The reading of Date.now() a call has made, 1 before it makes one.
ClockRead(b) == IF b.unsignedTx = None THEN 1 ELSE b.unsignedTx.time \div 1000

OutcomeAlone(b) ==
  BuilderOutcome(b.builder, b.storedKey, b.password, b.orderParams,
                 b.networkParams, ClockRead(b))

\* C11: whatever another call does in between its steps, a call that has
\* ended returned the signed transaction, or threw the error, that the same
\* call gives when run alone.
C11_IndependentCalls ==
  \A c \in Slots :
    /\ build[c].pc = "done"
         => /\ OutcomeAlone(build[c]).ok
            /\ build[c].result = OutcomeAlone(build[c]).value
    /\ build[c].pc = "failed"
         => /\ ~OutcomeAlone(build[c]).ok
            /\ build[c].error = OutcomeAlone(build[c]).error
            /\ build[c].result = None

\* One call has returned while a call of another builder, with another
\* keyfile, is between its decrypt and its signing.
C11_Witness ==
  /\ build["direct"].pc = "done"
  /\ build["ui"].pc = "sign"
  /\ build["ui"].storedKey # build["direct"].storedKey
  /\ build["ui"].builder # build["direct"].builder
  /\ build["direct"].result = OutcomeAlone(build["direct"]).value

(***************************************************************************)
(* Claims about keys of other lengths (checked under SpecKeyLength).       *)
(***************************************************************************)
OtherLength(publicKey) ==
  /\ Len(publicKey) # 2 * ED25519_PUBLIC_KEY_BYTES
  /\ Len(publicKey) # 2 * BLS12381_PUBLIC_KEY_BYTES

LastStep(b) == b.trace[Len(b.trace)]

\* C12: a build whose publicKey has neither 64 nor 96 characters is not
\* stopped by curve detection: once its key is decrypted the curve is
\* ED25519, a failure of the build is never a failure of detection, and the
\* signature that is made and returned is an ED25519 signature.
C12_OtherLengthsSignEd25519 ==
  \A c \in Slots :
    (build[c].pc # "idle" /\ OtherLength(PublicKeyOf(build[c]))) =>
      /\ "detect" \in Steps(build[c]) => build[c].curveType = ED25519
      /\ build[c].pc = "failed" => LastStep(build[c]) # "detect"
      /\ build[c].pc \in {"assemble", "canonicalize", "sign", "package", "done"}
           <=> "detect" \in Steps(build[c])
      /\ build[c].signatureHex # None
           => build[c].signatureHex.alg = ED25519
      /\ build[c].pc = "done"
           => /\ build[c].result.raw_transaction.signature.signature.alg
                   = ED25519
              /\ build[c].result.raw_transaction.signature.publicKey
                   = PublicKeyOf(build[c])

C12_Witness ==
  \E c \in Slots :
    /\ build[c].pc = "done"
    /\ Len(PublicKeyOf(build[c])) = 2 * ED25519_PUBLIC_KEY_BYTES + 2
    /\ build[c].curveType = ED25519
    /\ build[c].result.raw_transaction.signature.signature.alg = ED25519

(***************************************************************************)
(* Claims about validateTransactionParams (checked under SpecValidate).    *)
(***************************************************************************)
Rejects(message) == pure.result = message

TypeGiven == pure.args.type # ""

MsgGiven == TypeGiven /\ pure.args.msg # None

FeeValid == MsgGiven /\ pure.args.fee >= 0

NetworkValid == FeeValid /\ pure.args.networkID >= 1

ChainValid == NetworkValid /\ pure.args.chainID >= 1

HeightValid == ChainValid /\ pure.args.height >= 0

\* C13: with a type and a message given, validateTransactionParams rejects
\* fee -1, networkID 0, chainID 0, height -1 and a memo of 201 characters and
\* accepts fee 0, networkID 1, chainID 1, height 0 with a memo of 200
\* characters or none; the checks run in the order type, msg, fee, networkID,
\* chainID, height, memo and the first that fails gives the error.
C13_ValidationBoundaries ==
  pure.phase = "returned" =>
    /\ ~TypeGiven
         => Rejects("Invalid message type: must be a non-empty string")
    /\ (TypeGiven /\ ~MsgGiven)
         => Rejects("Invalid message: must be an object")
    /\ (MsgGiven /\ pure.args.fee = -1)
         => Rejects("Invalid fee: must be a non-negative number")
    /\ (FeeValid /\ pure.args.networkID = 0)
         => Rejects("Invalid network ID: must be a positive number")
    /\ (NetworkValid /\ pure.args.chainID = 0)
         => Rejects("Invalid chain ID: must be a positive number")
    /\ (ChainValid /\ pure.args.height = -1)
         => Rejects("Invalid height: must be a non-negative number")
    /\ (HeightValid /\ Len(pure.args.memo) = MAX_MEMO_LENGTH + 1)
         => Rejects("Invalid memo: must be 200 characters or less")
    /\ (/\ MsgGiven
        /\ pure.args.fee = 0 /\ pure.args.networkID = 1
        /\ pure.args.chainID = 1 /\ pure.args.height = 0
        /\ Len(pure.args.memo) \in {0, MAX_MEMO_LENGTH})
         => pure.result = ""

\* Every check but the first fails, and the error is that of the fee.
C13_Witness ==
  /\ pure.phase = "returned"
  /\ MsgGiven
  /\ pure.args.fee = -1 /\ pure.args.networkID = 0 /\ pure.args.chainID = 0
  /\ pure.args.height = -1 /\ Len(pure.args.memo) = MAX_MEMO_LENGTH + 1
  /\ pure.result = "Invalid fee: must be a non-negative number"

PayloadWellFormed(type, msg) ==
  /\ type = "deleteOrder" => DOMAIN msg = {"orderId", "chainId"}
  /\ type # "deleteOrder" => msg # ForeignPayload /\ msg # None

\* C14 (as stated): validateTransactionParams returns only for a message
\* type that is one of send, createOrder, editOrder, deleteOrder with a
\* payload that has the fields of that type.
C14_OnlyRecognizedAccepted ==
  (pure.phase = "returned" /\ pure.result = "") =>
    /\ pure.args.type \in RecognizedTypes
    /\ PayloadWellFormed(pure.args.type, pure.args.msg)

(***************************************************************************)
(* Claims about the sign bytes (checked under SpecSignBytes).              *)
(***************************************************************************)
\* C15: the sign bytes of two transactions that createAndSignTransaction
\* assembles from equal type, msg, time, height, fee, memo, networkID and
\* chainID are identical, and those of two transactions that differ in one
\* of them are different.
C15_SignBytesFieldSensitive ==
  pure.phase = "returned" =>
    /\ pure.result[1].ok /\ pure.result[2].ok
    /\ pure.args[1] = pure.args[2]
         => pure.result[1].value = pure.result[2].value
    /\ pure.args[1] # pure.args[2]
         => pure.result[1].value # pure.result[2].value

\* Two transactions that differ in their chainID only.
C15_Witness ==
  /\ pure.phase = "returned"
  /\ Differing(pure.args[1], pure.args[2]) = {"chainID"}
  /\ pure.result[1].value # pure.result[2].value

(***************************************************************************)
(* Claims about the handlers of the component (checked under SpecUI).      *)
(***************************************************************************)
InFlight(pc) == pc \in {"decrypt", "hex", "detect", "assemble",
                        "canonicalize", "sign", "package"}

HandlerStarts ==
  /\ comp'.handler.pc = "building"
  /\ comp'.handler.inv # comp.handler.inv

\* A handler starts its build only when no handler and no build of the
\* component is running, and a transaction is submitted only when no
\* submission is pending.
StartsWhenIdle ==
  /\ HandlerStarts
       => /\ comp.handler.pc = "idle"
          /\ ~comp.isLoading
          /\ ~InFlight(build["ui"].pc)
  /\ Len(comp'.submitted) > Len(comp.submitted)
       => comp.handler.pc # "submitting"

\* The buttons are disabled exactly while a handler runs, and a build of the
\* component runs only for the handler that awaits it.
DisabledWhileRunning ==
  /\ comp.isLoading <=> comp.handler.pc # "idle"
  /\ ButtonDisabled <=> comp.handler.pc # "idle"
  /\ InFlight(build["ui"].pc) => comp.handler.pc = "building"
  /\ comp.handler.pc # "idle" => comp.handler.inv = comp.clicks

\* C16: at most one of handleEditAskOrder and handleDeleteAskOrder is
\* running at any time: both buttons are disabled while isLoading is true,
\* so no second decrypt, sign and submit sequence starts before the first
\* has finished, and no two submissions are pending together.
C16_OneHandlerInFlight ==
  [](DisabledWhileRunning) /\ [][StartsWhenIdle]_vars

\* A second handler is awaiting its submission after the first one, which
\* also submitted, has finished.
C16_Witness ==
  /\ comp.handler.pc = "submitting"
  /\ comp.handler.inv = 2
  /\ comp.isLoading
  /\ Len(comp.submitted) = 2

Preconditions ==
  /\ comp.env.selectedCanopyWallet.filename # ""
  /\ comp.env.hasOrder
  /\ comp.env.password # <<>>

HandlerEnds == comp.handler.pc # "idle" /\ comp'.handler.pc = "idle"

\* What one step of a handler does to isLoading, onClose and the build.
HandlerProtocol ==
  /\ (comp'.isLoading /\ ~comp.isLoading) => (Preconditions /\ HandlerStarts)
  /\ HandlerEnds => ~comp'.isLoading
  /\ comp'.closed # comp.closed
       => /\ comp.handler.pc = "submitting"
          /\ comp'.closed = comp.closed + 1
          /\ comp'.submitted = comp.submitted
          /\ comp'.toast = ProgressToast(comp.handler.kind)
  /\ comp'.toast = FailureToast(comp.handler.kind) /\ HandlerEnds
       => comp'.closed = comp.closed
  /\ (comp'.clicks # comp.clicks /\ ~Preconditions)
       => /\ build' = build
          /\ comp'.submitted = comp.submitted
          /\ comp'.isLoading = comp.isLoading
          /\ comp'.handler = comp.handler
          /\ comp'.closed = comp.closed

\* Without the preconditions nothing is ever decrypted, signed or submitted.
NothingWithoutPreconditions ==
  ~Preconditions
    => /\ build["ui"] = IdleBuild
       /\ comp.submitted = <<>>
       /\ ~comp.isLoading
       /\ comp.closed = 0

\* C17: the handlers set isLoading only after the wallet, order and password
\* preconditions pass and reset it when they finish, after a failed build,
\* a failed submission and a successful one alike; they call onClose only
\* after submitSignedTransaction succeeded; a handler that fails a
\* precondition decrypts, signs and submits nothing and leaves isLoading
\* as it was.
C17_LoadingAndClose ==
  /\ [](NothingWithoutPreconditions)
  /\ [](comp.handler.pc = "idle" => ~comp.isLoading)
  /\ [][HandlerProtocol]_vars

\* A handler has finished after its build failed: isLoading is false again
\* and onClose was not called.
C17_Witness ==
  /\ comp.clicks = 1
  /\ comp.handler.pc = "idle"
  /\ build["ui"].pc = "failed"
  /\ comp.toast = FailureToast("edit")
  /\ ~comp.isLoading
  /\ comp.closed = 0

=============================================================================
